---- MODULE Spec2Model ----
(***************************************************************************)
(* Model of src/api/java/genkinds.py: the script that turns the ordered    *)
(* kind table of KindsParser into cvc/Kind.java, and of the Java           *)
(* enumeration that the emitted text defines (constants, static            *)
(* initializer, fromInt, getValue).                                        *)
(*                                                                         *)
(* The generated text is a sequence of tokens: the fixed header            *)
(* KINDS_JAVA_TOP, one token per formatted member line, the fixed footer   *)
(* KINDS_JAVA_BOTTOM.  A member line carries the member name and the       *)
(* decimal rendering of its code as a sequence of characters; the Java     *)
(* side reads the decimal back.                                            *)
(***************************************************************************)
EXTENDS Integers, Sequences, FiniteSets, TLC

\* ------------------------------------------------------------------ bounds
MaxLen == 3
MaxRuns == 2
NumThreads == 2

\* ------------------------------------------------------ program constants
InitialEnumValue == -2

\* ------------------------------------------------------------------ inputs
\* Names the header may contain: the two names fromInt refers to, two
\* ordinary kinds, and one name that is a reserved word of the target
\* language.
KindNames == {"INTERNAL_KIND", "AND", "OR", "LAST_KIND", "class"}

ReservedWords == {"class"}

Threads == 1..NumThreads

\* integers a caller passes to fromInt: one below the lowest code that can be
\* assigned up to one above the highest
LookupValues == (InitialEnumValue - 1)..(InitialEnumValue + MaxLen)

VARIABLES
  header,      \* the ordered names of the kinds header (input, fixed)
  pc,          \* position of the script
  run,         \* number of the current invocation of the script
  err,         \* error that ended the current invocation
  kinds,       \* parser.kinds: ordered items (kind, name)
  it,          \* number of items the for loop has consumed
  code,        \* local variable code of gen_java
  enum_value,  \* local variable enum_value of gen_java
  f,           \* state of the file object f
  file,        \* content of the output file on disk
  preRun,      \* content of the output file when the invocation began
  writes,      \* number of f.write calls of the current invocation
  prevOutput,  \* output left by the previous successful invocation
  javac,       \* outcome of compiling the output file
  classFile,   \* the enum constants declared by the compiled text
  clinit,      \* state of the initialization of class Kind
  enumConsts,  \* the constructed constants, each with its field value
  kindMap,     \* static field kindMap
  putIdx,      \* number of constants the static block has put
  thr          \* per caller: its fromInt call and outcome

vars == <<header, pc, run, err, kinds, it, code, enum_value, f, file, preRun,
          writes, prevOutput, javac, classFile, clinit, enumConsts, kindMap,
          putIdx, thr>>

genVars == <<kinds, it, code, enum_value, f, file, preRun, writes>>
javaVars == <<javac, classFile, clinit, enumConsts, kindMap, putIdx, thr>>

\* ----------------------------------------------------------------- helpers
RECURSIVE SeqsUpTo(_, _)
SeqsUpTo(S, n) ==
  IF n = 0 THEN {<<>>}
  ELSE LET shorter == SeqsUpTo(S, n - 1)
       IN  shorter \cup {Append(s, x) : s \in shorter, x \in S}

Range(s) == {s[i] : i \in 1..Len(s)}

NoDuplicates(s) == \A i, j \in 1..Len(s) : i # j => s[i] # s[j]

\* ---------------------------------------------------------- text rendering
DigitChar(d) ==
  CASE d = 0 -> "0" [] d = 1 -> "1" [] d = 2 -> "2" [] d = 3 -> "3"
    [] d = 4 -> "4" [] d = 5 -> "5" [] d = 6 -> "6" [] d = 7 -> "7"
    [] d = 8 -> "8" [] d = 9 -> "9"

RECURSIVE Digits(_)
Digits(k) ==
  IF k < 10 THEN <<DigitChar(k)>>
  ELSE Digits(k \div 10) \o <<DigitChar(k % 10)>>

\* str.format of an int: optional minus sign, then the decimal digits
FormatIntUnsigned(v) == IF v < 0 THEN Digits(-v) ELSE Digits(v)

FormatInt(v) == IF v < 0 THEN <<"-">> \o Digits(-v) ELSE Digits(v)

KINDS_JAVA_TOP == [t |-> "top", name |-> "", value |-> <<>>]

KINDS_JAVA_BOTTOM == [t |-> "bottom", name |-> "", value |-> <<>>]

OldText == [t |-> "old", name |-> "", value |-> <<>>]

\* which component of a (kind, name) item names the member
MemberNameFromDisplay(item) == item.name

MemberName(item) == item.kind

\* "  {name}({enum_value}),\n".format(name=kind, enum_value=enum_value)
FormatLine(item, v) ==
  [t |-> "member", name |-> MemberName(item), value |-> FormatInt(v)]

\* the text gen_java assembles for a table: header, member lines, footer
RECURSIVE MemberLines(_, _)
MemberLines(items, v) ==
  IF items = <<>> THEN <<>>
  ELSE <<FormatLine(Head(items), v)>> \o MemberLines(Tail(items), v + 1)

CompleteText(items) ==
  <<KINDS_JAVA_TOP>> \o MemberLines(items, InitialEnumValue)
    \o <<KINDS_JAVA_BOTTOM>>

\* ------------------------------------------------------------- Kind Source
\* identifier rules of the target language
ValidIdentifier(n) == n \notin ReservedWords

\* the display name the Kind Source associates with an identifier
DisplayName(n) ==
  CASE n = "INTERNAL_KIND" -> "Internal"
    [] n = "LAST_KIND" -> "Last"
    [] n = "AND" -> "And"
    [] n = "OR" -> "Or"
    [] OTHER -> "Class"

Malformed(names) ==
  \/ ~NoDuplicates(names)
  \/ \E i \in 1..Len(names) : ~ValidIdentifier(names[i])

\* the ordered mapping identifier -> display name, as its items()
OrderedMapping(names) ==
  [i \in 1..Len(names) |-> [kind |-> names[i], name |-> DisplayName(names[i])]]

\* ------------------------------------------------------------------- Init
Init ==
  /\ header \in SeqsUpTo(KindNames, MaxLen)
  /\ pc = "main"
  /\ run = 1
  /\ err = "none"
  /\ kinds = <<>>
  /\ it = 0
  /\ code = <<>>
  /\ enum_value = 0
  /\ f = "none"
  /\ file = <<OldText>>
  /\ preRun = <<OldText>>
  /\ writes = 0
  /\ prevOutput = <<>>
  /\ javac = "none"
  /\ classFile = <<>>
  /\ clinit = "uninitialized"
  /\ enumConsts = <<>>
  /\ kindMap = <<>>
  /\ putIdx = 0
  /\ thr = [t \in Threads |->
              [st |-> "idle", v |-> 0,
               res |-> [kind |-> "none", member |-> "", value |-> 0,
                        low |-> 0, high |-> 0]]]

\* --------------------------------------------------------------- __main__
\* kp.parse(kinds_header) returns with the ordered mapping
KindsParser_parse ==
  /\ pc = "main"
  /\ ~Malformed(header)
  /\ kinds' = OrderedMapping(header)
  /\ pc' = "parsed"
  /\ UNCHANGED <<header, run, err, it, code, enum_value, f, file, preRun,
                 writes, prevOutput>>
  /\ UNCHANGED javaVars

\* kp.parse(kinds_header) raises: the run ends before gen_java is called
KindsParser_parse_fails ==
  /\ pc = "main"
  /\ Malformed(header)
  /\ err' = "MalformedInputKind"
  /\ pc' = "failed"
  /\ UNCHANGED <<header, run, it, code, enum_value, f, file, preRun,
                 writes, prevOutput, kinds>>
  /\ UNCHANGED javaVars

\* gen_java is called only when kp.parse has returned
GenJavaCalledAfterFailure == pc = "parsed" \/ (pc = "failed" /\ f = "none")

GenJavaCalled == pc = "parsed"

\* content of the file right after open(filename, mode)
OpenAppend(old) == old

OpenTruncate(old) == <<>>

\* f = open(filename, "w"); code = KINDS_JAVA_TOP; enum_value = -2
gen_java_open ==
  /\ GenJavaCalled
  /\ f' = "open"
  /\ file' = OpenTruncate(file)
  /\ code' = <<KINDS_JAVA_TOP>>
  /\ enum_value' = InitialEnumValue
  /\ it' = 0
  /\ pc' = "loop"
  /\ UNCHANGED <<header, run, err, kinds, preRun, writes, prevOutput>>
  /\ UNCHANGED javaVars

\* the successor of the running code
NextEnumValueStuck(v) == v

NextEnumValue(v) == v + 1

\* one iteration of: for kind, name in parser.kinds.items()
gen_java_loop ==
  /\ pc = "loop"
  /\ it < Len(kinds)
  /\ code' = Append(code, FormatLine(kinds[it + 1], enum_value))
  /\ enum_value' = NextEnumValue(enum_value)
  /\ it' = it + 1
  /\ UNCHANGED <<header, pc, run, err, kinds, f, file, preRun, writes,
                 prevOutput>>
  /\ UNCHANGED javaVars

\* the iterator is exhausted: code += KINDS_JAVA_BOTTOM
gen_java_bottom ==
  /\ pc = "loop"
  /\ it = Len(kinds)
  /\ code' = Append(code, KINDS_JAVA_BOTTOM)
  /\ pc' = "write"
  /\ UNCHANGED <<header, run, err, kinds, it, enum_value, f, file, preRun,
                 writes, prevOutput>>
  /\ UNCHANGED javaVars

\* f.write(code)
gen_java_write ==
  /\ pc = "write"
  /\ f = "open"
  /\ file' = file \o code
  /\ writes' = writes + 1
  /\ pc' = "close"
  /\ UNCHANGED <<header, run, err, kinds, it, code, enum_value, f, preRun,
                 prevOutput>>
  /\ UNCHANGED javaVars

\* f.write(code) raises OSError after some proper prefix reached the disk
gen_java_write_fails ==
  /\ pc = "write"
  /\ f = "open"
  /\ \E k \in 0..(Len(code) - 1) : file' = file \o SubSeq(code, 1, k)
  /\ writes' = writes + 1
  /\ err' = "IOFailure"
  /\ pc' = "failed"
  /\ UNCHANGED <<header, run, kinds, it, code, enum_value, f, preRun,
                 prevOutput>>
  /\ UNCHANGED javaVars

\* f.close()
gen_java_close ==
  /\ pc = "close"
  /\ f' = "closed"
  /\ pc' = "done"
  /\ UNCHANGED <<header, run, err, kinds, it, code, enum_value, file, preRun,
                 writes, prevOutput>>
  /\ UNCHANGED javaVars

\* the script is invoked again on the same header
Rerun ==
  /\ pc = "done"
  /\ run < MaxRuns
  /\ javac = "none"
  /\ run' = run + 1
  /\ prevOutput' = file
  /\ preRun' = file
  /\ pc' = "main"
  /\ kinds' = <<>>
  /\ it' = 0
  /\ code' = <<>>
  /\ enum_value' = 0
  /\ f' = "none"
  /\ writes' = 0
  /\ UNCHANGED <<header, err, file>>
  /\ UNCHANGED javaVars

\* ------------------------------------------------- the generated Kind.java
DigitValue(c) ==
  CASE c = "0" -> 0 [] c = "1" -> 1 [] c = "2" -> 2 [] c = "3" -> 3
    [] c = "4" -> 4 [] c = "5" -> 5 [] c = "6" -> 6 [] c = "7" -> 7
    [] c = "8" -> 8 [] c = "9" -> 9

RECURSIVE DigitsValue(_, _)
DigitsValue(cs, acc) ==
  IF cs = <<>> THEN acc
  ELSE DigitsValue(Tail(cs), 10 * acc + DigitValue(Head(cs)))

\* the int literal of a member declaration NAME(literal)
IntLiteral(cs) ==
  IF Head(cs) = "-" THEN 0 - DigitsValue(Tail(cs), 0) ELSE DigitsValue(cs, 0)

\* the text has the shape: header, member declarations, footer
WellShaped(text) ==
  /\ Len(text) >= 2
  /\ text[1] = KINDS_JAVA_TOP
  /\ text[Len(text)] = KINDS_JAVA_BOTTOM
  /\ \A i \in 2..(Len(text) - 1) : text[i].t = "member"

\* the enum constants the text declares, in declaration order
DeclaredConstants(text) ==
  [i \in 1..(Len(text) - 2) |->
     [name |-> text[i + 1].name, value |-> IntLiteral(text[i + 1].value)]]

ConstantNames(cs) == {cs[i].name : i \in 1..Len(cs)}

\* the text is a compilable enum: its constants are distinct identifiers and
\* the two constants that fromInt names are declared
Compiles(text) ==
  /\ WellShaped(text)
  /\ LET cs == DeclaredConstants(text)
     IN  /\ \A i, j \in 1..Len(cs) : i # j => cs[i].name # cs[j].name
         /\ \A i \in 1..Len(cs) : ValidIdentifier(cs[i].name)
         /\ "INTERNAL_KIND" \in ConstantNames(cs)
         /\ "LAST_KIND" \in ConstantNames(cs)

javac_ok ==
  /\ pc = "done"
  /\ javac = "none"
  /\ Compiles(file)
  /\ javac' = "compiled"
  /\ classFile' = DeclaredConstants(file)
  /\ UNCHANGED <<header, pc, run, err, prevOutput>>
  /\ UNCHANGED genVars
  /\ UNCHANGED <<clinit, enumConsts, kindMap, putIdx, thr>>

javac_error ==
  /\ pc = "done"
  /\ javac = "none"
  /\ ~Compiles(file)
  /\ javac' = "error"
  /\ UNCHANGED <<header, pc, run, err, prevOutput>>
  /\ UNCHANGED genVars
  /\ UNCHANGED <<classFile, clinit, enumConsts, kindMap, putIdx, thr>>

\* class initialization begins: each constant is constructed by
\* Kind(int value) { this.value = value; } and kindMap = new HashMap<>()
Kind_clinit_begin ==
  /\ javac = "compiled"
  /\ clinit = "uninitialized"
  /\ enumConsts' = classFile
  /\ kindMap' = <<>>
  /\ putIdx' = 0
  /\ clinit' = "initializing"
  /\ UNCHANGED <<header, pc, run, err, prevOutput>>
  /\ UNCHANGED genVars
  /\ UNCHANGED <<javac, classFile, thr>>

\* public int getValue() { return value; }
getValue(kind) == kind.value

\* Map.put(key, val)
MapPut(m, key, val) ==
  [x \in (DOMAIN m) \cup {key} |-> IF x = key THEN val ELSE m[x]]

\* one iteration of the static block: kindMap.put(kind.getValue(), kind)
Kind_clinit_put ==
  /\ clinit = "initializing"
  /\ putIdx < Len(enumConsts)
  /\ LET kind == enumConsts[putIdx + 1]
     IN  kindMap' = MapPut(kindMap, getValue(kind), kind.name)
  /\ putIdx' = putIdx + 1
  /\ UNCHANGED <<header, pc, run, err, prevOutput>>
  /\ UNCHANGED genVars
  /\ UNCHANGED <<javac, classFile, clinit, enumConsts, thr>>

\* the static block has gone through Kind.values()
Kind_clinit_end ==
  /\ clinit = "initializing"
  /\ putIdx = Len(enumConsts)
  /\ clinit' = "initialized"
  /\ UNCHANGED <<header, pc, run, err, prevOutput>>
  /\ UNCHANGED genVars
  /\ UNCHANGED <<javac, classFile, enumConsts, kindMap, putIdx, thr>>

\* a static method of Kind runs only once the class is initialized
LookupReachableDuringInit == clinit \in {"initializing", "initialized"}

LookupReachable == clinit = "initialized"

\* the field value of the constant with the given name
ConstValue(n) ==
  getValue(CHOOSE c \in Range(enumConsts) : c.name = n)

NoResult ==
  [kind |-> "none", member |-> "", value |-> 0, low |-> 0, high |-> 0]

Returned(m) ==
  [kind |-> "ok", member |-> m, value |-> 0, low |-> 0, high |-> 0]

ReturnedNull ==
  [kind |-> "null", member |-> "", value |-> 0, low |-> 0, high |-> 0]

\* CVCApiException("Kind value " + value + " is outside the valid range ["
\*                 + INTERNAL_KIND.value + "," + LAST_KIND.value + "]")
CVCApiException(v, lo, hi) ==
  [kind |-> "CVCApiException", member |-> "", value |-> v, low |-> lo,
   high |-> hi]

\* value < INTERNAL_KIND.value || value > LAST_KIND.value
OutsideRange(v) ==
  v < ConstValue("INTERNAL_KIND") \/ v > ConstValue("LAST_KIND")

\* kindMap.get(value)
MapGet(m, key) == IF key \in DOMAIN m THEN Returned(m[key]) ELSE ReturnedNull

\* the outcome of fromInt(value) on the current class state
fromInt(v) ==
  IF OutsideRange(v)
  THEN CVCApiException(v, ConstValue("INTERNAL_KIND"), ConstValue("LAST_KIND"))
  ELSE MapGet(kindMap, v)

\* a caller enters Kind.fromInt(v)
fromInt_call(t, v) ==
  /\ LookupReachable
  /\ thr[t].st # "called"
  /\ thr' = [thr EXCEPT ![t] = [st |-> "called", v |-> v, res |-> NoResult]]
  /\ UNCHANGED <<header, pc, run, err, prevOutput>>
  /\ UNCHANGED genVars
  /\ UNCHANGED <<javac, classFile, clinit, enumConsts, kindMap, putIdx>>

\* the range check fails: the call throws
fromInt_throw(t) ==
  /\ thr[t].st = "called"
  /\ OutsideRange(thr[t].v)
  /\ thr' = [thr EXCEPT ![t] = [st |-> "returned", v |-> @.v,
                                res |-> fromInt(@.v)]]
  /\ UNCHANGED <<header, pc, run, err, prevOutput>>
  /\ UNCHANGED genVars
  /\ UNCHANGED <<javac, classFile, clinit, enumConsts, kindMap, putIdx>>

\* the range check passes: return kindMap.get(value)
fromInt_return(t) ==
  /\ thr[t].st = "called"
  /\ ~OutsideRange(thr[t].v)
  /\ thr' = [thr EXCEPT ![t] = [st |-> "returned", v |-> @.v,
                                res |-> fromInt(@.v)]]
  /\ UNCHANGED <<header, pc, run, err, prevOutput>>
  /\ UNCHANGED genVars
  /\ UNCHANGED <<javac, classFile, clinit, enumConsts, kindMap, putIdx>>

\* ------------------------------------------------------------------- Spec
Next ==
  \/ KindsParser_parse
  \/ KindsParser_parse_fails
  \/ gen_java_open
  \/ gen_java_loop
  \/ gen_java_bottom
  \/ gen_java_write
  \/ gen_java_write_fails
  \/ gen_java_close
  \/ Rerun
  \/ javac_ok
  \/ javac_error
  \/ Kind_clinit_begin
  \/ Kind_clinit_put
  \/ Kind_clinit_end
  \/ \E t \in Threads, v \in LookupValues : fromInt_call(t, v)
  \/ \E t \in Threads : fromInt_throw(t)
  \/ \E t \in Threads : fromInt_return(t)

Spec == Init /\ [][Next]_vars

TypeOK ==
  /\ pc \in {"main", "parsed", "loop", "write", "close", "done", "failed"}
  /\ err \in {"none", "MalformedInputKind", "IOFailure"}
  /\ run \in 1..MaxRuns
  /\ it \in 0..Len(kinds)
  /\ f \in {"none", "open", "closed"}
  /\ javac \in {"none", "compiled", "error"}
  /\ clinit \in {"uninitialized", "initializing", "initialized"}

\* ----------------------------------------------------------------- claims
Start == InitialEnumValue

\* the member declarations of the output file, read back
Emitted == DeclaredConstants(file)

\* C1: after a successful run on n unique names the file declares exactly n
\* members, in input order, the k-th (0-indexed) bound to the code -2 + k, so
\* the codes are exactly the range -2 .. -2 + n - 1 without gap or repeat.
C1_SequentialCodes ==
  pc = "done" =>
    /\ WellShaped(file)
    /\ Len(Emitted) = Len(header)
    /\ \A i \in 1..Len(header) :
         /\ Emitted[i].name = header[i]
         /\ Emitted[i].value = Start + (i - 1)
    /\ {Emitted[i].value : i \in 1..Len(Emitted)}
         = Start..(Start + Len(header) - 1)
    /\ \A i, j \in 1..Len(Emitted) :
         i # j => Emitted[i].value # Emitted[j].value

C1_Witness ==
  /\ pc = "done"
  /\ Len(header) = 3
  /\ Emitted[3].value = 0

\* C2: fromInt(value) succeeds exactly when value lies in
\* [start, start + n - 1], and otherwise throws an exception that reports the
\* value and the bounds start and start + n - 1.
C2_RangeCheck ==
  \A t \in Threads :
    thr[t].st = "returned" =>
      LET n  == Len(enumConsts)
          lo == Start
          hi == Start + n - 1
      IN  IF thr[t].v \in lo..hi
          THEN thr[t].res.kind = "ok"
          ELSE thr[t].res = CVCApiException(thr[t].v, lo, hi)

\* C3: on the initialized class, fromInt and getValue are mutually inverse:
\* every code of [start, start + n - 1] maps to a member whose value is that
\* code, and every member is what fromInt returns for its value.
C3_Bijection ==
  clinit = "initialized" =>
    /\ \A v \in Start..(Start + Len(enumConsts) - 1) :
         /\ fromInt(v).kind = "ok"
         /\ ConstValue(fromInt(v).member) = v
    /\ \A i \in 1..Len(enumConsts) :
         fromInt(getValue(enumConsts[i])) = Returned(enumConsts[i].name)

\* C4: for the empty table the run succeeds, the text is a well-formed
\* enumeration with no member, and every fromInt call fails with the
\* out-of-range exception.
C4_EmptyInput ==
  (pc = "done" /\ header = <<>>) =>
    /\ err = "none"
    /\ Emitted = <<>>
    /\ Compiles(file)
    /\ javac # "error"
    /\ clinit = "initialized" =>
         \A v \in LookupValues : fromInt(v).kind = "CVCApiException"

\* the member names a text declares are pairwise different
DistinctMemberNames(text) ==
  \A i, j \in 1..Len(text) :
    (i # j /\ text[i].t = "member" /\ text[j].t = "member")
      => text[i].name # text[j].name

C6_NoPartialOutput ==
  pc = "failed" =>
    \/ file = preRun
    \/ file = CompleteText(OrderedMapping(header))

\* C7 as stated: every member is named with the display name (the value of
\* the item).
C7_DisplayNameUsed ==
  pc = "done" =>
    /\ Len(Emitted) = Len(kinds)
    /\ \A i \in 1..Len(kinds) : Emitted[i].name = kinds[i].name

\* C7 amended: every member is named with the identifier (the key of the
\* item), verbatim, for every entry of the mapping; the display name is not
\* used.
C7_IdentifierUsed ==
  pc = "done" =>
    /\ Len(Emitted) = Len(kinds)
    /\ \A i \in 1..Len(kinds) : Emitted[i].name = kinds[i].kind

C7_Witness ==
  /\ pc = "done"
  /\ Len(kinds) >= 2
  /\ Emitted[2].name = kinds[2].kind
  /\ kinds[2].name # kinds[2].kind

\* every constructed constant has its entry in the map
MapComplete ==
  \A i \in 1..Len(enumConsts) :
    /\ getValue(enumConsts[i]) \in DOMAIN kindMap
    /\ kindMap[getValue(enumConsts[i])] = enumConsts[i].name

C8_State ==
  \A t \in Threads :
    /\ thr[t].st # "idle" => (clinit = "initialized" /\ MapComplete)
    /\ thr[t].st = "returned" => thr[t].res = fromInt(thr[t].v)

C8_Step ==
  /\ clinit = "initialized" =>
       (kindMap' = kindMap /\ enumConsts' = enumConsts /\ clinit' = clinit)
  /\ \A t \in Threads :
       (thr[t].st = "called" /\ thr'[t].res.kind = "CVCApiException") =>
         /\ UNCHANGED <<kindMap, enumConsts, clinit, classFile, file>>
         /\ \A u \in Threads \ {t} : thr'[u] = thr[u]

\* C8: no fromInt call is in progress or finished unless the static
\* initializer has completed and the map has an entry for every member; once
\* initialized the map never changes; a call that throws changes nothing but
\* its own outcome, and every outcome is the one its own argument determines.
C8_InitBeforeLookup == [](C8_State) /\ [][C8_Step]_vars

C8_Witness ==
  /\ Len(enumConsts) = 3
  /\ thr[1].st = "returned" /\ thr[1].res.kind = "CVCApiException"
  /\ thr[2].st = "returned" /\ thr[2].res.kind = "ok"

\* C9: a second run on the same header leaves exactly the text, and so the
\* same code assignments, that the run before it left.
C9_Deterministic ==
  (run >= 2 /\ pc = "done") =>
    /\ file = prevOutput
    /\ DeclaredConstants(file) = DeclaredConstants(prevOutput)

C9_Witness ==
  /\ run = 2
  /\ pc = "done"
  /\ Len(header) = 3
  /\ file = prevOutput

\* C10: a run writes at most once, and only the completely assembled text;
\* the loop consumes each item once; after the loop the counter is -2 + n;
\* on success the file is header, the n member lines in table order, footer,
\* and the file object is closed.
C10_SingleWrite ==
  /\ writes <= 1
  /\ it <= Len(kinds)
  /\ pc \in {"main", "parsed", "loop", "write"} => writes = 0
  /\ writes = 1 => code = CompleteText(kinds)
  /\ pc = "loop" => /\ Len(code) = it + 1
                    /\ enum_value = Start + it
  /\ pc \in {"write", "close", "done"} =>
       /\ it = Len(kinds)
       /\ enum_value = Start + Len(kinds)
       /\ Len(code) = Len(kinds) + 2
  /\ pc = "close" => (file = CompleteText(kinds) /\ f = "open")
  /\ pc = "done" =>
       /\ file = CompleteText(kinds)
       /\ file = <<KINDS_JAVA_TOP>>
                   \o [i \in 1..Len(kinds) |->
                         [t |-> "member", name |-> kinds[i].kind,
                          value |-> FormatInt(Start + i - 1)]]
                   \o <<KINDS_JAVA_BOTTOM>>
       /\ f = "closed"
       /\ writes = 1

C10_Witness ==
  /\ pc = "done"
  /\ Len(kinds) = 3
  /\ writes = 1
  /\ enum_value = 1
  /\ f = "closed"

====
